---- MODULE Spec2Model ----
(***************************************************************************)
(* Model of api/index.py: the /api/route handler (get_route) and the risk  *)
(* scorer (calculate_risk_score).                                          *)
(*                                                                         *)
(* Strings built with f-strings are sequences of string pieces whose       *)
(* concatenation is the text.  Floats of the normaliser are exact          *)
(* fractions [n, d] in lowest terms; the two values the endpoint claims    *)
(* are about (0.05 + 0.0 * 0.95 and 0.05 + 1.0 * 0.95) are exact in IEEE   *)
(* double arithmetic as well (0.05 and 1.0).                               *)
(***************************************************************************)
EXTENDS Integers, Sequences, FiniteSets, TLC

VARIABLES
    GOOGLE_MAPS_API_KEY,  \* module global read from the environment at startup
    args,                 \* request.args of the request being handled
    pc,                   \* "idle" | "awaiting" (requests.get in flight) | "done"
    outbound,             \* outbound provider requests issued for this request
    responses,            \* responses returned for this request
    reply,                \* what requests.get produced for this request
    processed_routes,     \* processed_routes as it stands before line 196 deletes the raw score
    response,             \* the (body, HTTP code) returned to the client
    route,                \* scorer specification: the argument of calculate_risk_score
    result                \* scorer specification: what calculate_risk_score returned

vars == <<GOOGLE_MAPS_API_KEY, args, pc, outbound, responses, reply,
          processed_routes, response, route, result>>

handlerVars == <<GOOGLE_MAPS_API_KEY, args, pc, outbound, responses, reply,
                 processed_routes, response>>

scorerVars == <<route, result>>

----------------------------------------------------------------------------
(* Bounds of the model *)

MaxRoutes == 3   \* routes in one provider reply
MaxLegs == 2     \* legs of a route handed to the scorer
MaxSteps == 3    \* steps of a route handed to the scorer, over all its legs

(* Program constants *)

RadiusMeters == 250
HazardPoints == 100
BlackspotPoints == 200
TrafficOnlyThreshold == 700

Absent == "<absent>"      \* a key the dict / query string does not hold (.get gives the default)
NoKey == "<unset>"        \* os.environ.get returned None

----------------------------------------------------------------------------
(* Sequence helpers *)

Range(s) == {s[i] : i \in DOMAIN s}

RECURSIVE SeqsUpTo(_, _)
SeqsUpTo(S, n) ==
    IF n = 0 THEN {<<>>}
    ELSE LET shorter == SeqsUpTo(S, n - 1)
         IN  shorter \cup {Append(s, x) : s \in {t \in shorter : Len(t) = n - 1}, x \in S}

RECURSIVE Join(_, _)
\* ', '.join(names) as string pieces
Join(names, sep) ==
    IF names = <<>> THEN <<>>
    ELSE IF Len(names) = 1 THEN names
    ELSE <<Head(names), sep>> \o Join(Tail(names), sep)

----------------------------------------------------------------------------
(* calculate_risk_score *)

\* str.lower() on the words the model's instructions are made of
LowerWord(w) ==
    CASE w = "Sharp" -> "sharp"
      [] w = "Head" -> "head"
      [] w = "At" -> "at"
      [] w = "U-turn" -> "u-turn"
      [] w = "Merge" -> "merge"
      [] OTHER -> w

\* step.get("html_instructions", "").lower(); an instruction is its sequence of words
Lower(instruction) == [i \in DOMAIN instruction |-> LowerWord(instruction[i])]

\* keyword in instruction
Contains(instruction, keyword) == \E i \in DOMAIN instruction : instruction[i] = keyword

hazard_keywords == <<"sharp", "roundabout", "merge", "u-turn">>

ACCIDENT_BLACKSPOTS ==
    << "Gandhipuram Signal", "Ukkadam", "Avinashi Road - Hope College",
       "Mettupalayam Road - Saibaba Colony", "Trichy Road - Ramanathapuram",
       "Saravanampatti Junction", "Pollachi Road - Eachanari",
       "Palakkad Road - Kuniyamuthur" >>

\* A coordinate is [fields, near, meters]: the keys the dict holds, the blackspot
\* it lies closest to and its geodesic distance to that blackspot in whole
\* meters.  The blackspots lie more than 2.6 km from each other, so a point at
\* most 251 m from one of them is more than 250 m from every other.
geodesic(coord, blackspot) ==
    IF coord.near = blackspot THEN coord.meters ELSE 2000 + coord.meters

NoLocation == [fields |-> {}, near |-> "nowhere", meters |-> 0]   \* step without start_location

\* is_within_radius(coord1, blackspot, radius_meters); every blackspot dict holds "lat" and "lon"
is_within_radius(coord1, blackspot, radius_meters) ==
    IF ~ (coord1.fields # {} /\ "lat" \in coord1.fields /\ "lon" \in coord1.fields)
    THEN FALSE
    ELSE geodesic(coord1, blackspot) <= radius_meters

\* duration_in_traffic_seconds of the route: read from legs[0]
duration_in_traffic_seconds(r) == r.legs[1].duration_in_traffic

\* steps = route.get("legs", [{}])[0].get("steps", [])
StepsScanned(r) == r.legs[1].steps

NoHazards == [base_score |-> 0, sharp_turns_count |-> 0,
              other_hazardous_maneuvers_count |-> 0, hazard_coordinates |-> <<>>]

\* body of the loop of lines 44-59 for one step
HazardStep(acc, step) ==
    LET instruction == Lower(step.html_instructions)
        is_sharp == Contains(instruction, "sharp")
        is_other == ~ is_sharp /\ \E k \in DOMAIN hazard_keywords :
                                      Contains(instruction, hazard_keywords[k])
        is_hazardous_this_step == is_sharp \/ is_other
    IN  [base_score |-> acc.base_score + (IF is_hazardous_this_step THEN HazardPoints ELSE 0),
         sharp_turns_count |-> acc.sharp_turns_count + (IF is_sharp THEN 1 ELSE 0),
         other_hazardous_maneuvers_count |->
             acc.other_hazardous_maneuvers_count + (IF is_other THEN 1 ELSE 0),
         hazard_coordinates |->
             IF is_hazardous_this_step
             THEN Append(acc.hazard_coordinates, step.start_location)
             ELSE acc.hazard_coordinates]

RECURSIVE HazardScan(_, _)
\* for step in steps (lines 44-59)
HazardScan(acc, steps) ==
    IF steps = <<>> THEN acc ELSE HazardScan(HazardStep(acc, Head(steps)), Tail(steps))

NoBlackspots == [base_score |-> 0, blackspot_intersections_count |-> 0,
                 reasons |-> <<>>, passed_blackspot_names |-> {}]

BlackspotReason(name) == [kind |-> "blackspot", count |-> 0, name |-> name]

\* lines 94-99 with the guard of line 94 dropped: a blackspot is credited at every step near it
BlackspotCheckEveryStep(acc, step_location, blackspot) ==
    IF is_within_radius(step_location, blackspot, RadiusMeters)
    THEN [base_score |-> acc.base_score + BlackspotPoints,
          blackspot_intersections_count |-> acc.blackspot_intersections_count + 1,
          reasons |-> Append(acc.reasons, BlackspotReason(blackspot)),
          passed_blackspot_names |-> acc.passed_blackspot_names \cup {blackspot}]
    ELSE acc

\* body of the inner loop, lines 94-99
BlackspotCheck(acc, step_location, blackspot) ==
    IF blackspot \notin acc.passed_blackspot_names
       /\ is_within_radius(step_location, blackspot, RadiusMeters)
    THEN [base_score |-> acc.base_score + BlackspotPoints,
          blackspot_intersections_count |-> acc.blackspot_intersections_count + 1,
          reasons |-> Append(acc.reasons, BlackspotReason(blackspot)),
          passed_blackspot_names |-> acc.passed_blackspot_names \cup {blackspot}]
    ELSE acc

RECURSIVE BlackspotsOfStep(_, _, _)
\* for blackspot in ACCIDENT_BLACKSPOTS (line 93), from index j on
BlackspotsOfStep(acc, step_location, j) ==
    IF j > Len(ACCIDENT_BLACKSPOTS) THEN acc
    ELSE BlackspotsOfStep(BlackspotCheck(acc, step_location, ACCIDENT_BLACKSPOTS[j]),
                          step_location, j + 1)

RECURSIVE BlackspotScan(_, _)
\* for step in steps (lines 91-99)
BlackspotScan(acc, steps) ==
    IF steps = <<>> THEN acc
    ELSE BlackspotScan(BlackspotsOfStep(acc, Head(steps).start_location, 1), Tail(steps))

Pending == [state |-> "pending", base_score |-> 0, hazard_coordinates |-> <<>>,
            reasons |-> {}, reasons_appended |-> <<>>, sharp_turns_count |-> 0,
            other_hazardous_maneuvers_count |-> 0, blackspot_intersections_count |-> 0]

\* calculate_risk_score(route): the returned triple with the locals the claims
\* speak of; state "IndexError" when legs is an empty list (legs[0] raises).
calculate_risk_score(r) ==
    IF r.legs = <<>> THEN [Pending EXCEPT !.state = "IndexError"]
    ELSE
    LET seconds == duration_in_traffic_seconds(r)
        minutes_in_traffic == seconds \div 60
        traffic_score == IF seconds > 0 THEN minutes_in_traffic ELSE 0
        traffic_reasons ==
            IF seconds > 0
            THEN <<[kind |-> "traffic", count |-> minutes_in_traffic, name |-> ""]>>
            ELSE <<>>
        steps == StepsScanned(r)
        hz == HazardScan(NoHazards, steps)
        hazard_reasons ==
            (IF hz.sharp_turns_count > 0
             THEN <<[kind |-> "sharp", count |-> hz.sharp_turns_count, name |-> ""]>>
             ELSE <<>>)
            \o (IF hz.other_hazardous_maneuvers_count > 0
                THEN <<[kind |-> "other", count |-> hz.other_hazardous_maneuvers_count,
                        name |-> ""]>>
                ELSE <<>>)
        bs == BlackspotScan(NoBlackspots, steps)
        base_score == traffic_score + hz.base_score + bs.base_score
        reasons == traffic_reasons \o hazard_reasons \o bs.reasons
        fallback ==
            IF base_score > TrafficOnlyThreshold /\ hz.sharp_turns_count = 0
               /\ bs.blackspot_intersections_count = 0
               /\ hz.other_hazardous_maneuvers_count = 0
            THEN <<[kind |-> "traffic-only", count |-> 0, name |-> ""]>>
            ELSE IF base_score = 0 /\ reasons = <<>>
            THEN <<[kind |-> "standard", count |-> 0, name |-> ""]>>
            ELSE <<>>
    IN  [state |-> "returned",
         base_score |-> base_score,
         hazard_coordinates |-> hz.hazard_coordinates,
         reasons |-> Range(reasons \o fallback),
         reasons_appended |-> reasons \o fallback,
         sharp_turns_count |-> hz.sharp_turns_count,
         other_hazardous_maneuvers_count |-> hz.other_hazardous_maneuvers_count,
         blackspot_intersections_count |-> bs.blackspot_intersections_count]

----------------------------------------------------------------------------
(* Inputs of the scorer specification *)

LatLon == {"lat", "lon"}

Far == [fields |-> LatLon, near |-> "nowhere", meters |-> 0]

Near(blackspot, meters) == [fields |-> LatLon, near |-> blackspot, meters |-> meters]

StepKinds ==
    { [html_instructions |-> <<"Head", "north">>, start_location |-> Far],
      [html_instructions |-> <<"Sharp", "left">>, start_location |-> Far],
      [html_instructions |-> <<"At", "the", "roundabout">>,
       start_location |-> Near("Gandhipuram Signal", 100)],
      [html_instructions |-> <<"Head", "north">>,
       start_location |-> Near("Gandhipuram Signal", 250)],
      [html_instructions |-> <<"Head", "north">>,
       start_location |-> Near("Gandhipuram Signal", 251)],
      [html_instructions |-> <<"Merge", "onto", "NH544">>,
       start_location |-> Near("Ukkadam", 0)],
      [html_instructions |-> <<"Make", "a", "U-turn">>, start_location |-> NoLocation],
      \* the provider's own coordinate shape: keys "lat" and "lng"
      [html_instructions |-> <<"Sharp", "right", "to", "merge">>,
       start_location |-> [fields |-> {"lat", "lng"}, near |-> "Ukkadam", meters |-> 0]] }

Durations == {0, 600}

RECURSIVE StepsBefore(_, _)
\* the number of steps in the first i legs of a route whose legs hold sizes[1], sizes[2], ... steps
StepsBefore(sizes, i) == IF i = 0 THEN 0 ELSE sizes[i] + StepsBefore(sizes, i - 1)

\* the route whose leg i holds duration seconds[i] and the next sizes[i] steps of flat
RouteOf(sizes, seconds, flat) ==
    [legs |-> [i \in DOMAIN sizes |->
                  [duration_in_traffic |-> seconds[i],
                   steps |-> SubSeq(flat, StepsBefore(sizes, i - 1) + 1,
                                    StepsBefore(sizes, i))]]]

----------------------------------------------------------------------------
(* get_route *)

required_params == <<"originLat", "originLng", "destinationLat", "destinationLng">>

ArgValues == {Absent, "11", "76.9", "abc"}

\* float(s): "ok" with the repr of the float ("11" parses to 11.0), or ValueError
float(s) ==
    CASE s = "11" -> [ok |-> TRUE, repr |-> "11.0"]
      [] s = "76.9" -> [ok |-> TRUE, repr |-> "76.9"]
      [] OTHER -> [ok |-> FALSE, repr |-> ""]

NoResponse == [code |-> 0, status |-> "", error |-> <<>>, routes |-> <<>>]

ErrorResponse(error, status, code) ==
    [code |-> code, status |-> status, error |-> error, routes |-> <<>>]

\* line 126 taking only the first absent name
missing_params_first_only(a) ==
    LET all == SelectSeq(required_params, LAMBDA param : a[param] = Absent)
    IN  IF all = <<>> THEN <<>> ELSE <<Head(all)>>

\* missing_params = [param for param in required_params if param not in request.args]
missing_params(a) == SelectSeq(required_params, LAMBDA param : a[param] = Absent)

\* lines 124-139: the response when validation fails, NoResponse when it passes
ValidateParams(a) ==
    IF missing_params(a) # <<>>
    THEN ErrorResponse(<<"Missing required parameters: ">> \o Join(missing_params(a), ", "),
                       "PARAMS_ERROR", 400)
    ELSE IF \E i \in DOMAIN required_params : ~ float(a[required_params[i]]).ok
    THEN ErrorResponse(<<"Coordinate values must be valid numbers.">>, "VALUE_ERROR", 400)
    ELSE NoResponse

CredentialError ==
    ErrorResponse(<<"Server configuration error: API key missing.">>,
                  "SERVER_CONFIG_ERROR", 500)

\* lines 121-139 with the two checks in the other order
BeforeCallParamsFirst(key, a) ==
    IF ValidateParams(a) # NoResponse THEN ValidateParams(a)
    ELSE IF key = NoKey THEN CredentialError
    ELSE NoResponse

\* lines 121-139: what get_route returns before it reaches requests.get,
\* NoResponse when it goes on to the call
BeforeCall(key, a) ==
    IF key = NoKey THEN CredentialError
    ELSE ValidateParams(a)

directions_url == "https://maps.googleapis.com/maps/api/directions/json"

\* the URL requests builds from directions_url and params (lines 141-148)
RequestUrl(key, a) ==
    << directions_url,
       "?origin=", float(a["originLat"]).repr, ",", float(a["originLng"]).repr,
       "&destination=", float(a["destinationLat"]).repr, ",",
       float(a["destinationLng"]).repr,
       "&key=", key, "&alternatives=true&departure_time=now" >>

(* The fractions of the normaliser *)

RECURSIVE GCD(_, _)
GCD(a, b) == IF b = 0 THEN a ELSE GCD(b, a % b)

Frac(n, d) == LET g == GCD(n, d) IN [n |-> n \div g, d |-> d \div g]

FracLeq(x, y) == x.n * y.d <= y.n * x.d

FracMin(x, y) == IF FracLeq(x, y) THEN x ELSE y

FracMax(x, y) == IF FracLeq(x, y) THEN y ELSE x

FracAdd(x, y) == Frac(x.n * y.d + y.n * x.d, x.d * y.d)

FracMul(x, y) == Frac(x.n * y.n, x.d * y.d)

RECURSIVE MinRaw(_)
MinRaw(processed) ==
    IF Len(processed) = 1 THEN processed[1].raw_risk_for_sorting
    ELSE LET m == MinRaw(Tail(processed))
         IN  IF processed[1].raw_risk_for_sorting < m
             THEN processed[1].raw_risk_for_sorting ELSE m

RECURSIVE MaxRaw(_)
MaxRaw(processed) ==
    IF Len(processed) = 1 THEN processed[1].raw_risk_for_sorting
    ELSE LET m == MaxRaw(Tail(processed))
         IN  IF processed[1].raw_risk_for_sorting > m
             THEN processed[1].raw_risk_for_sorting ELSE m

\* lines 186-194 dividing by the maximum and leaving out the 0.05 floor and the clamp
risk_score_unfloored(raw, min_raw_risk, max_raw_risk) ==
    IF max_raw_risk > min_raw_risk
    THEN FracMul(Frac(raw - min_raw_risk, max_raw_risk), Frac(95, 100))
    ELSE Frac(0, 1)

\* lines 186-194 dividing by the maximum instead of the spread
risk_score_over_max(raw, min_raw_risk, max_raw_risk) ==
    LET normalized_score ==
            IF max_raw_risk > min_raw_risk
            THEN Frac(raw - min_raw_risk, max_raw_risk)
            ELSE Frac(0, 1)
        unclamped == FracAdd(Frac(5, 100), FracMul(normalized_score, Frac(95, 100)))
    IN  FracMax(Frac(5, 100), FracMin(Frac(1, 1), unclamped))

\* lines 186-194: the risk_score of a route with raw score raw
risk_score(raw, min_raw_risk, max_raw_risk) ==
    LET normalized_score ==
            IF max_raw_risk > min_raw_risk
            THEN Frac(raw - min_raw_risk, max_raw_risk - min_raw_risk)
            ELSE Frac(0, 1)
        unclamped == FracAdd(Frac(5, 100), FracMul(normalized_score, Frac(95, 100)))
    IN  FracMax(Frac(5, 100), FracMin(Frac(1, 1), unclamped))

\* lines 165-176: one entry per provider route, in the provider's order
Process(routes_from_google) ==
    [i \in DOMAIN routes_from_google |->
        LET scored == calculate_risk_score(routes_from_google[i])
        IN  [state |-> scored.state,
             raw_risk_for_sorting |-> scored.base_score,
             hazards_coordinates |-> scored.hazard_coordinates,
             reasons |-> scored.reasons,
             summary |-> routes_from_google[i].summary]]

\* lines 182-201: the routes of the response body
Normalise(processed) ==
    [i \in DOMAIN processed |->
        [risk_score |-> risk_score(processed[i].raw_risk_for_sorting,
                                   MinRaw(processed), MaxRaw(processed)),
         hazards_coordinates |-> processed[i].hazards_coordinates,
         reasons |-> processed[i].reasons,
         summary |-> processed[i].summary]]

UnknownServerError ==
    ErrorResponse(<<"An unexpected server error occurred.">>, "UNKNOWN_SERVER_ERROR", 500)

\* lines 155-159 checking the route list before the status
ClassifyRoutesFirst(data) ==
    IF data.routes = <<>>
    THEN ErrorResponse(<<"No routes found between the specified locations.">>,
                       "NO_ROUTES_FOUND_GOOGLE", 404)
    ELSE IF data.status # "OK"
    THEN ErrorResponse(<<"Error from Google Directions API: ", data.status>>, data.status, 500)
    ELSE NoResponse

\* lines 155-163: the error response for a 2xx reply's JSON, NoResponse when
\* the reply holds status "OK" and routes
Classify(data) ==
    IF data.status # "OK"
    THEN ErrorResponse(
             IF data.error_message # Absent THEN <<data.error_message>>
             ELSE <<"Error from Google Directions API: ",
                    IF data.status = Absent THEN "None" ELSE data.status>>,
             IF data.status \in {Absent, ""} THEN "GOOGLE_API_ERROR" ELSE data.status,
             500)
    ELSE IF data.routes = <<>>
    THEN ErrorResponse(<<"No routes found between the specified locations.">>,
                       "NO_ROUTES_FOUND_GOOGLE", 404)
    ELSE NoResponse

\* lines 153-201 and 216-220: the response to a 2xx reply
OnReply2xx(data) ==
    IF Classify(data) # NoResponse THEN Classify(data)
    ELSE LET processed == Process(data.routes)
         IN  IF \E i \in DOMAIN processed : processed[i].state = "IndexError"
             THEN UnknownServerError
             ELSE IF processed = <<>>
             THEN ErrorResponse(<<"No routes could be processed from Google's response.">>,
                                "ROUTE_PROCESSING_ERROR", 500)
             ELSE [code |-> 200, status |-> "OK", error |-> <<>>,
                   routes |-> Normalise(processed)]

\* bool(e.response): requests.Response.__bool__ is Response.ok, False for every
\* status raise_for_status raises on
ResponseTruthy(status_code) == status_code < 400

\* str(e) of the HTTPError raise_for_status raises: it names the request URL
HTTPErrorText(status_code, url) == <<ToString(status_code), " Error for url: ">> \o url

\* lines 203-212
OnHTTPError(r, url) ==
    LET truthy == ResponseTruthy(r.status_code)
        str_e == HTTPErrorText(r.status_code, url)
    IN  IF truthy /\ ~ r.is_json
        THEN ErrorResponse(<<r.text>>, "GOOGLE_HTTP_ERROR_NON_JSON", r.status_code)
        ELSE LET has(field) == truthy /\ r[field] # Absent
             IN  ErrorResponse(
                     IF has("error_message") THEN <<r.error_message>>
                     ELSE IF has("error") THEN <<r.error>>
                     ELSE str_e,
                     IF has("status") THEN r.status ELSE "GOOGLE_HTTP_ERROR",
                     IF truthy THEN r.status_code ELSE 500)

\* str(e) of the RequestException requests.get raises
RequestExceptionText(exc, url) ==
    IF exc = "ConnectionError"
    THEN <<"HTTPSConnectionPool(host='maps.googleapis.com', port=443): ",
           "Max retries exceeded with url: ">> \o Tail(url)
    ELSE <<"HTTPSConnectionPool(host='maps.googleapis.com', port=443): Read timed out.">>

\* lines 213-215
OnRequestException(exc, url) ==
    ErrorResponse(<<"Network error when fetching directions: ">>
                      \o RequestExceptionText(exc, url),
                  "NETWORK_ERROR_GOOGLE_API", 503)

----------------------------------------------------------------------------
(* Inputs of the handler specification *)

Keys == {NoKey, "AIzaSy-server-key"}

Requests == [Range(required_params) -> ArgValues]

NoArgs == [param \in Range(required_params) |-> Absent]

Leg(seconds, steps) == [duration_in_traffic |-> seconds, steps |-> steps]

PlainStep == [html_instructions |-> <<"Head", "north">>, start_location |-> Far]

SharpStep == [html_instructions |-> <<"Sharp", "left">>, start_location |-> Far]

RoundaboutStep == [html_instructions |-> <<"At", "the", "roundabout">>,
                   start_location |-> Near("Gandhipuram Signal", 100)]

\* the routes a provider reply is made of
ProviderRoutes ==
    { [summary |-> "NH544", legs |-> <<Leg(0, <<PlainStep>>)>>],
      [summary |-> "Avinashi Rd", legs |-> <<Leg(600, <<PlainStep>>)>>],
      [summary |-> "Trichy Rd", legs |-> <<Leg(0, <<SharpStep, PlainStep>>)>>],
      [summary |-> "Cross Cut Rd", legs |-> <<Leg(600, <<RoundaboutStep>>)>>],
      [summary |-> "Bypass", legs |-> <<Leg(0, <<PlainStep>>), Leg(0, <<SharpStep>>)>>],
      [summary |-> "Mettupalayam Rd", legs |-> <<Leg(43200, <<PlainStep>>)>>],
      [summary |-> "No legs", legs |-> <<>>] }

Statuses == {"OK", "ZERO_RESULTS", "REQUEST_DENIED", "", Absent}

KeyInvalid == "The provided API key is invalid."

NoReply == [kind |-> "none", status_code |-> 0, is_json |-> FALSE, status |-> Absent,
            error_message |-> Absent, error |-> Absent, text |-> "", routes |-> <<>>,
            exc |-> ""]

\* 2xx replies: a JSON object with status, maybe error_message, maybe routes
Replies2xx ==
    {[NoReply EXCEPT !.kind = "2xx", !.status_code = 200, !.is_json = TRUE,
                     !.status = st, !.error_message = em, !.routes = rs] :
        st \in Statuses, em \in {Absent, KeyInvalid},
        rs \in SeqsUpTo(ProviderRoutes, MaxRoutes)}

\* 4xx/5xx replies: a JSON error body or a text body
RepliesHTTPError ==
    {[NoReply EXCEPT !.kind = "http_error", !.status_code = c, !.is_json = TRUE,
                     !.status = st, !.error_message = em, !.error = er] :
        c \in {403, 500}, st \in {Absent, "REQUEST_DENIED"},
        em \in {Absent, KeyInvalid}, er \in {Absent, "forbidden"}}
    \cup
    {[NoReply EXCEPT !.kind = "http_error", !.status_code = c,
                     !.text = "<html>error</html>"] : c \in {403, 500}}

RequestExceptions == {"ConnectionError", "ReadTimeout"}

----------------------------------------------------------------------------
(* The handler specification: one request at a time through get_route *)

Init ==
    /\ GOOGLE_MAPS_API_KEY \in Keys
    /\ args = NoArgs
    /\ pc = "idle"
    /\ outbound = 0
    /\ responses = 0
    /\ reply = NoReply
    /\ processed_routes = <<>>
    /\ response = NoResponse
    /\ route = [legs |-> <<>>]
    /\ result = Pending

\* lines 120-151: get_route up to and including requests.get
ReceiveRequest ==
    /\ pc = "idle"
    /\ \E a \in Requests :
        /\ args' = a
        /\ IF BeforeCall(GOOGLE_MAPS_API_KEY, a) # NoResponse
           THEN /\ response' = BeforeCall(GOOGLE_MAPS_API_KEY, a)
                /\ responses' = responses + 1
                /\ pc' = "done"
                /\ UNCHANGED outbound
           ELSE /\ outbound' = outbound + 1
                /\ pc' = "awaiting"
                /\ UNCHANGED <<response, responses>>
    /\ UNCHANGED <<GOOGLE_MAPS_API_KEY, reply, processed_routes, route, result>>

\* lines 152-201, 216-220: the provider answered 2xx
Reply2xx ==
    /\ pc = "awaiting"
    /\ \E r \in Replies2xx :
        /\ reply' = r
        /\ processed_routes' = IF Classify(r) = NoResponse THEN Process(r.routes) ELSE <<>>
        /\ response' = OnReply2xx(r)
    /\ responses' = responses + 1
    /\ pc' = "done"
    /\ UNCHANGED <<GOOGLE_MAPS_API_KEY, args, outbound, route, result>>

\* lines 152, 203-212: the provider answered 4xx/5xx and raise_for_status raised
ReplyHTTPError ==
    /\ pc = "awaiting"
    /\ \E r \in RepliesHTTPError :
        /\ reply' = r
        /\ response' = OnHTTPError(r, RequestUrl(GOOGLE_MAPS_API_KEY, args))
    /\ responses' = responses + 1
    /\ pc' = "done"
    /\ UNCHANGED <<GOOGLE_MAPS_API_KEY, args, outbound, processed_routes, route, result>>

\* lines 151, 213-215: requests.get raised a RequestException
RequestFails ==
    /\ pc = "awaiting"
    /\ \E exc \in RequestExceptions :
        /\ reply' = [NoReply EXCEPT !.kind = "network", !.exc = exc]
        /\ response' = OnRequestException(exc, RequestUrl(GOOGLE_MAPS_API_KEY, args))
    /\ responses' = responses + 1
    /\ pc' = "done"
    /\ UNCHANGED <<GOOGLE_MAPS_API_KEY, args, outbound, processed_routes, route, result>>

\* the response is sent; the next request starts with fresh locals
NextRequest ==
    /\ pc = "done"
    /\ pc' = "idle"
    /\ args' = NoArgs
    /\ outbound' = 0
    /\ responses' = 0
    /\ reply' = NoReply
    /\ processed_routes' = <<>>
    /\ response' = NoResponse
    /\ UNCHANGED <<GOOGLE_MAPS_API_KEY, route, result>>

Next == ReceiveRequest \/ Reply2xx \/ ReplyHTTPError \/ RequestFails \/ NextRequest

Spec == Init /\ [][Next]_vars

----------------------------------------------------------------------------
(* The scorer specification: calculate_risk_score applied to one route *)

\* every route of at most MaxLegs legs holding at most MaxSteps steps in all
InitScorer ==
    /\ \E L \in 0..MaxLegs :
        \E sizes \in [1..L -> 0..MaxSteps] :
            /\ StepsBefore(sizes, L) <= MaxSteps
            /\ \E seconds \in [1..L -> Durations] :
                \E flat \in [1..StepsBefore(sizes, L) -> StepKinds] :
                    route = RouteOf(sizes, seconds, flat)
    /\ result = Pending
    /\ GOOGLE_MAPS_API_KEY = NoKey
    /\ args = NoArgs
    /\ pc = "scorer"
    /\ outbound = 0
    /\ responses = 0
    /\ reply = NoReply
    /\ processed_routes = <<>>
    /\ response = NoResponse

Score ==
    /\ result.state = "pending"
    /\ result' = calculate_risk_score(route)
    /\ UNCHANGED <<route, handlerVars>>

NextScorer == Score

SpecScorer == InitScorer /\ [][NextScorer]_vars

----------------------------------------------------------------------------
(* Properties *)

Succeeded == pc = "done" /\ response.code = 200 /\ response.status = "OK"

RawIsLowest(i) ==
    \A j \in DOMAIN processed_routes :
        processed_routes[i].raw_risk_for_sorting <= processed_routes[j].raw_risk_for_sorting

RawIsHighest(i) ==
    \A j \in DOMAIN processed_routes :
        processed_routes[i].raw_risk_for_sorting >= processed_routes[j].raw_risk_for_sorting

RawScoresDiffer ==
    \E i, j \in DOMAIN processed_routes :
        processed_routes[i].raw_risk_for_sorting < processed_routes[j].raw_risk_for_sorting

\* C1: every route of a successful /api/route response has its risk_score in
\* the closed range [0.05, 1.0], whatever the raw scores of the routes.
C1_RiskScoreInRange ==
    Succeeded =>
        /\ Len(response.routes) >= 1
        /\ \A i \in DOMAIN response.routes :
            /\ FracLeq(Frac(5, 100), response.routes[i].risk_score)
            /\ FracLeq(response.routes[i].risk_score, Frac(1, 1))

\* a successful response of three routes, one of them strictly inside the range
C1_Witness ==
    /\ Succeeded
    /\ Len(response.routes) = 3
    /\ \E i \in DOMAIN response.routes :
        /\ ~ FracLeq(response.routes[i].risk_score, Frac(5, 100))
        /\ ~ FracLeq(Frac(1, 1), response.routes[i].risk_score)

\* C2: in a successful response every route whose raw score is the lowest gets
\* risk_score exactly 0.05 and, when the raw scores differ, every route whose
\* raw score is the highest gets exactly 1.0; with all raw scores equal (a
\* single route included) every route gets exactly 0.05.
C2_NormalisationEndpoints ==
    Succeeded =>
        /\ DOMAIN response.routes = DOMAIN processed_routes
        /\ \A i \in DOMAIN response.routes :
            /\ RawIsLowest(i) => response.routes[i].risk_score = Frac(5, 100)
            /\ (RawScoresDiffer /\ RawIsHighest(i)) => response.routes[i].risk_score = Frac(1, 1)

\* a successful response whose lowest raw score is positive and below its highest
C2_Witness ==
    /\ Succeeded
    /\ RawScoresDiffer
    /\ \A i \in DOMAIN processed_routes : processed_routes[i].raw_risk_for_sorting > 0
    /\ \E i \in DOMAIN response.routes : response.routes[i].risk_score = Frac(1, 1)
    /\ \E i \in DOMAIN response.routes : response.routes[i].risk_score = Frac(5, 100)

\* C3: no response body holds the value of GOOGLE_MAPS_API_KEY, whatever the
\* outcome of the request.
C3_KeyNeverEchoed ==
    pc = "done" =>
        \A i \in DOMAIN response.error : response.error[i] # GOOGLE_MAPS_API_KEY

AbsentParams == {param \in Range(required_params) : args[param] = Absent}

\* the parameter names an error message lists
ListedParams == {response.error[i] : i \in DOMAIN response.error} \cap Range(required_params)

ListsExactlyTheAbsent ==
    /\ response.code = 400
    /\ response.status = "PARAMS_ERROR"
    /\ ListedParams = AbsentParams
    /\ Cardinality({i \in DOMAIN response.error : response.error[i] \in Range(required_params)})
           = Cardinality(AbsentParams)

\* C4 as stated: a request with an absent required parameter is answered 400
\* PARAMS_ERROR listing exactly the absent names.
C4_AsStated ==
    (pc = "done" /\ AbsentParams # {}) => ListsExactlyTheAbsent

\* C4: when GOOGLE_MAPS_API_KEY is configured, a request with an absent
\* required parameter is answered 400 PARAMS_ERROR and the message lists
\* exactly the absent names, whatever the values of the parameters present.
C4_MissingParamsListed ==
    (pc = "done" /\ GOOGLE_MAPS_API_KEY # NoKey /\ AbsentParams # {}) => ListsExactlyTheAbsent

\* two names absent, a non-numeric value among the present ones
C4_Witness ==
    /\ pc = "done"
    /\ GOOGLE_MAPS_API_KEY # NoKey
    /\ Cardinality(AbsentParams) = 2
    /\ \E param \in Range(required_params) : args[param] = "abc"
    /\ response.status = "PARAMS_ERROR"

EmptyRoutes404 ==
    (reply.kind = "2xx" /\ reply.status = "OK" /\ reply.routes = <<>>)
        => (response.code = 404 /\ response.status = "NO_ROUTES_FOUND_GOOGLE")

OkOnlyWithRoutes ==
    (response.status = "OK" \/ response.code = 200)
        => (reply.kind = "2xx" /\ reply.status = "OK" /\ reply.routes # <<>>)

\* C5 as stated: a 2xx reply whose status is not "OK" gives 500 with the
\* provider's status unchanged.
C5_AsStated ==
    pc = "done" =>
        /\ (reply.kind = "2xx" /\ reply.status # "OK")
               => (response.code = 500 /\ response.status = reply.status)
        /\ EmptyRoutes404
        /\ OkOnlyWithRoutes

\* C5: a 2xx reply whose status is not "OK" gives 500, decided before the
\* routes are looked at, with the provider's status unchanged when it is a
\* non-empty string and GOOGLE_API_ERROR when it is empty or absent; status
\* "OK" without routes gives 404 NO_ROUTES_FOUND_GOOGLE; a response with status
\* "OK" is returned only for a reply with status "OK" and at least one route.
C5_ReplyClassification ==
    pc = "done" =>
        /\ (reply.kind = "2xx" /\ reply.status # "OK")
               => /\ response.code = 500
                  /\ response.status = IF reply.status \in {Absent, ""}
                                       THEN "GOOGLE_API_ERROR" ELSE reply.status
        /\ EmptyRoutes404
        /\ OkOnlyWithRoutes

\* ZERO_RESULTS arriving with an empty route list is answered 500, not 404
C5_Witness ==
    /\ pc = "done"
    /\ reply.kind = "2xx"
    /\ reply.status = "ZERO_RESULTS"
    /\ reply.routes = <<>>
    /\ response.code = 500
    /\ response.status = "ZERO_RESULTS"

\* C6: a non-2xx provider reply is answered with the provider's HTTP status
\* code; error and status come from the JSON error body (status defaulting to
\* GOOGLE_HTTP_ERROR), or are the raw text and GOOGLE_HTTP_ERROR_NON_JSON.
C6_ProviderErrorPropagated ==
    (pc = "done" /\ reply.kind = "http_error") =>
        /\ response.code = reply.status_code
        /\ reply.is_json =>
            /\ response.status = IF reply.status = Absent THEN "GOOGLE_HTTP_ERROR"
                                 ELSE reply.status
            /\ reply.error_message # Absent => response.error = <<reply.error_message>>
        /\ ~ reply.is_json =>
            /\ response.status = "GOOGLE_HTTP_ERROR_NON_JSON"
            /\ response.error = <<reply.text>>

\* C7: the routes of a successful response are in non-decreasing order of
\* risk_score.
C7_RoutesSortedByRisk ==
    Succeeded =>
        \A i, j \in DOMAIN response.routes :
            i < j => FracLeq(response.routes[i].risk_score, response.routes[j].risk_score)

AllNumeric == \A param \in Range(required_params) : float(args[param]).ok

\* C8: a request gets exactly one response and at most one outbound request;
\* the outbound request is issued only with the credential configured and all
\* four parameters present and numeric; the credential check comes first.
C8_OneCallAfterChecks ==
    /\ outbound <= 1
    /\ responses = (IF pc = "done" THEN 1 ELSE 0)
    /\ pc = "awaiting" => outbound = 1
    /\ outbound >= 1 => (GOOGLE_MAPS_API_KEY # NoKey /\ AbsentParams = {} /\ AllNumeric)
    /\ pc = "done" =>
        /\ GOOGLE_MAPS_API_KEY = NoKey
               => (response.code = 500 /\ response.status = "SERVER_CONFIG_ERROR")
        /\ (GOOGLE_MAPS_API_KEY # NoKey /\ AbsentParams # {})
               => (response.code = 400 /\ response.status = "PARAMS_ERROR")
        /\ (GOOGLE_MAPS_API_KEY # NoKey /\ AbsentParams = {} /\ ~ AllNumeric)
               => (response.code = 400 /\ response.status = "VALUE_ERROR")
        /\ (reply.kind # "none") => outbound = 1

\* no credential and an absent parameter: SERVER_CONFIG_ERROR, nothing sent
C8_Witness ==
    /\ pc = "done"
    /\ GOOGLE_MAPS_API_KEY = NoKey
    /\ AbsentParams # {}
    /\ response.status = "SERVER_CONFIG_ERROR"
    /\ outbound = 0

RECURSIVE StepsOfLegs(_)
\* the steps of the legs, in route order
StepsOfLegs(legs) == IF legs = <<>> THEN <<>> ELSE Head(legs).steps \o StepsOfLegs(Tail(legs))

MentionsHazard(step) ==
    \E k \in DOMAIN hazard_keywords : Contains(Lower(step.html_instructions), hazard_keywords[k])

HazardousSteps(steps) == {i \in DOMAIN steps : MentionsHazard(steps[i])}

BlackspotsNear(steps) ==
    {b \in Range(ACCIDENT_BLACKSPOTS) :
        \E i \in DOMAIN steps : is_within_radius(steps[i].start_location, b, RadiusMeters)}

TrafficPoints == IF route.legs[1].duration_in_traffic > 0
                 THEN route.legs[1].duration_in_traffic \div 60 ELSE 0

\* C9: every hazardous step and every blackspot near a step start counts,
\* whichever leg of the route the step belongs to.
C9_EveryLegScanned ==
    result.state = "returned" =>
        LET steps == StepsOfLegs(route.legs)
        IN  /\ Len(result.hazard_coordinates) = Cardinality(HazardousSteps(steps))
            /\ \A b \in BlackspotsNear(steps) : BlackspotReason(b) \in result.reasons
            /\ result.base_score = TrafficPoints
                                   + HazardPoints * Cardinality(HazardousSteps(steps))
                                   + BlackspotPoints * Cardinality(BlackspotsNear(steps))

BlackspotReasonsAppended ==
    {i \in DOMAIN result.reasons_appended : result.reasons_appended[i].kind = "blackspot"}

\* C10: the blackspot part of the raw score is 200 times the number of
\* distinct blackspots within 250 m of a scanned step start, and each of them
\* yields one reason, however many steps lie near it.
C10_BlackspotOncePerRoute ==
    result.state = "returned" =>
        LET matched == BlackspotsNear(StepsScanned(route))
        IN  /\ result.base_score - TrafficPoints
                   - HazardPoints * Len(result.hazard_coordinates)
               = BlackspotPoints * Cardinality(matched)
            /\ result.blackspot_intersections_count = Cardinality(matched)
            /\ Cardinality(BlackspotReasonsAppended) = Cardinality(matched)

\* three scanned steps near the same blackspot, credited once
C10_Witness ==
    /\ result.state = "returned"
    /\ Cardinality({i \in DOMAIN StepsScanned(route) :
           is_within_radius(StepsScanned(route)[i].start_location,
                            "Gandhipuram Signal", RadiusMeters)}) >= 3
    /\ result.blackspot_intersections_count = 1

====
